---- MODULE Spec2Model ----
(***************************************************************************)
(* A model of the torq reactivity runtime: source refs (BaseRef), computed *)
(* refs (ComputedRef), effects (BaseEffect), plain scopes (BaseScope) and  *)
(* the Subscription edges between them.                                    *)
(*                                                                         *)
(* Small programs are modelled; each is followed by any sequence of        *)
(* top-level calls (set, get, subscribe, unsubscribe, dispose, ...) and    *)
(* microtask drains.                                                       *)
(*                                                                         *)
(*   "effect"    a = Ref(a0);  k = Ref(k0);                                *)
(*               b = computed(() => a.get() + 1);                          *)
(*               d = computed(() => { const x = k.get();                   *)
(*                                    return x ? b.get() : x });           *)
(*               e = Effect(() => { k.get(); d.get() });                   *)
(*   "observed"  a, k, b, d as above, no effect; an external observer o1   *)
(*               subscribes to and unsubscribes from d or k.               *)
(*   "diamond"   a = Ref(a0);                                              *)
(*               b = computed(() => a.get() + 1);                          *)
(*               c = computed(() => a.get() > 0 ? 1 : 0);                  *)
(*               d = computed(() => b.get() + c.get());  d.subscribe(o1);  *)
(*   "tree"      a = Ref(a0);  s = Scope();  t = Scope({scope: s});        *)
(*               d = computed(() => a.get() + 1, {scope: s});              *)
(*               e = Effect(() => { d.get() }, {scope: t});                *)
(*   "faulty"    a = Ref(a0);  k = Ref(k0);                                *)
(*               b = computed(() => { if (k.get()) throw new Error();      *)
(*                                    return a.get() + 1 });               *)
(*               d = computed(() => b.get());                              *)
(*   "build"     a = Ref(0, {signal});  then, in any order and with any    *)
(*               scope option, s = Scope(), b and d = computed(() =>       *)
(*               a.get() + 1), e = Effect(() => { a.get();                 *)
(*               if (!t || t.disposed) t = Scope({scope: null}) }),        *)
(*               controller.abort() and dispose().                         *)
(*   "forward"   a = Ref(a0);  k = Ref(k0);                                *)
(*               b = computed(() => a.get() + 1);  then k.set(a) or        *)
(*               k.set(b), k.set(v), k.subscribe(o1) and dispose().        *)
(*   "reentrant" a, k, b as in "forward"; the next hook of the external    *)
(*               observer o1 of a calls a.set(v + 1).                      *)
(*   "struct"    u = Struct({ first: a0,                                   *)
(*                            get full() { return this.first + 1 } });     *)
(*               k = Ref(k0);  d = computed(() => u.first + 1);  then      *)
(*               reads and writes of u.first and u.full, ref(u, K),        *)
(*               u.first = k, and e = Effect(() => { u.full }).            *)
(*   "shallow"   a = new BaseRef(a0, {shallow});  k = new BaseRef(k0);     *)
(*               the values are numbers or a plain object.                 *)
(*   "unhook"    a, k, b, d as in "effect"; the hooks of the external      *)
(*               observer o1 of a or b unsubscribe the subscription that   *)
(*               called them.                                              *)
(*   "dishook"   as "unhook", the hooks disable the subscription.          *)
(***************************************************************************)
EXTENDS Integers, Sequences, FiniteSets, TLC

\* ---------------------------------------------------------------- bounds
\* the source ref a holds a value in 0..MaxA
MaxA == 1
\* user code makes a further call only while fewer than MaxQueue
\* microtasks are pending
MaxQueue == 3
\* the "diamond" program makes at most MaxWrites value-changing writes
MaxWrites == 3
\* the observer subscribes to a cell whose subscriber array is shorter than
\* MaxSubs
MaxSubs == 4

\* ---------------------------------------------------------- value domain
\* JavaScript values are encoded as integers; NaN and -0 are tokens of
\* their own, so that Object.is tells them apart from every number.
NaN == -2
NegZero == -3
\* the null stored in a cleaned-up subscription's snapshot slot
NullVal == -4
\* the marker of a computed ref that was never computed
INITIAL_VALUE == -1
\* the ref object that set(ref) hands to notifyAll in place of a value
RefValue == -5

KVals == {0, 1, NegZero, NaN}
AVals == 0..MaxA
BoolVals == {0, 1}

\* Object.is: SameValue; NaN is NaN, +0 is not -0
ObjectIs(x, y) == x = y

\* the same-value-zero comparison ([NaN] equals [NaN], +0 equals -0)
SameValueZero(x, y) == \/ x = y
                       \/ (x \in {0, NegZero} /\ y \in {0, NegZero})

\* a plain object, and the store that BaseStore.create makes of it
ObjectVal == -6
StoreVal == -7

\* isObject(value): typeof value === "object" && value !== null
IsObject(v) == v \in {ObjectVal, StoreVal}

\* BaseStore.create(value): the reactive store over the object
BaseStoreCreate(v) == StoreVal

\* JavaScript truthiness of a number
Truthy(v) == v \notin {0, NegZero, NaN}

\* ------------------------------------------------------------ the nodes
Src == {"a", "k"}
Der == {"b", "c", "d"}
Eff == {"e"}
Plain == {"s", "t"}
Cell == Src \cup Der
Consumer == Der \cup Eff
ScopeNode == Der \cup Eff \cup Plain
Node == Cell \cup Eff \cup Plain
Ext == {"o1"}
\* the properties of the object behind the struct: first holds a value, full
\* is an accessor without a setter; a and b are the refs the struct makes
\* for them
Key == {"first", "full"}
PropertyRef(K) == IF K = "first" THEN "a" ELSE "b"
\* the observers: computed refs and effects, external observers, and the
\* forward observer of a source ref
Observer == Consumer \cup Ext \cup Src
Null == "null"

\* a subscription is identified by its two ends
Edge == Cell \X Observer

\* the fields of a subscription after Subscription.cleanup
NoSub == [obs |-> Null, observer |-> Null, sidx |-> -1, didx |-> -1,
          snap |-> NullVal, closed |-> TRUE, enabled |-> FALSE]

\* --------------------------------------------------------------- helpers
Last(q) == q[Len(q)]
Front(q) == SubSeq(q, 1, Len(q) - 1)
Range(q) == {q[i] : i \in 1..Len(q)}
\* array store at a 0-based index; a store past the end leaves holes
SetAt(q, i, v) ==
    [j \in 1..(IF i + 1 > Len(q) THEN i + 1 ELSE Len(q)) |->
        IF j = i + 1 THEN v ELSE IF j <= Len(q) THEN q[j] ELSE "null"]
Count(q, x) == Cardinality({i \in 1..Len(q) : q[i] = x})


VARIABLES
    prog,       \* the program that was constructed
    val,        \* [$value] of every cell
    dirty,      \* computed refs with Flags.Dirty
    queued,     \* computed refs and effects with Flags.Queued
    disposed,   \* cells and effects with Flags.Disposed
    enabled,    \* effects with Flags.Enabled
    subs,       \* [$subscribers] of every cell: the observers of its edges
    deps,       \* [$dependencies] of computed refs and effects: the sources
    depsNull,   \* consumers whose [$dependencies] was set to null
    sub,        \* the Subscription objects, by edge
    parent,     \* [$parent] of every scope
    children,   \* [$children] of every scope (a sequence)
    childNull,  \* scopes whose [$children] is null
    index,      \* [$index] of every scope
    sdepsNull,  \* plain scopes whose [$dependencies] set is null
    made,       \* the scopes and cells that were constructed
    object,     \* "struct": property first of the object behind the struct
    refs,       \* "struct": per property, the refs stored in struct.refs
    shallow,    \* source refs with Flags.Shallow
    options,    \* source refs constructed with the option shallow: true
    aborted,    \* the aborted flag of the program's AbortSignal
    listeners,  \* the objects whose dispose listens to its "abort" event
    signalled,  \* the objects constructed with that signal in their options
    queue,      \* the microtask queue
    cur,        \* currentScope
    cursor,     \* dependencyIndex
    \* ---- observation of the last step and of the last recipe runs
    op,         \* the call made by the last step: <<name, target, argument>>
    ret,        \* the value a get() returned
    exc,        \* the call threw, or a microtask of the drain did
    ran,        \* recipes invoked during the last step, in order
    log,        \* hooks of external observers invoked during the last step
    threw,      \* computed refs whose recipe has thrown
    reads,      \* per consumer: live cells read by its most recent run
    saw,        \* per consumer: the values those reads returned
    \* ---- bookkeeping of the claims
    owed,       \* edges of external observers that are owed a next
    lazyw,      \* computed refs written-to while they had no subscriber
    warned,     \* edges of external observers that received a dirty and no
                \* next since
    wcount,     \* "diamond": value-changing writes to a so far
    druns       \* "diamond": runs of d's recipe so far

vars == <<prog, val, dirty, queued, disposed, enabled, subs, deps, depsNull,
          sub, parent, children, childNull, index, sdepsNull, made, object,
          refs, shallow, options, aborted,
          listeners, signalled, queue, cur,
          cursor, op, ret, exc, ran, log, threw, reads, saw,
          owed, lazyw, warned, wcount, druns>>

\* The heap: everything a call can read or change, passed through the
\* operators below that model the methods.
Heap == [prog |-> prog, val |-> val, dirty |-> dirty, queued |-> queued,
         disposed |-> disposed, enabled |-> enabled, subs |-> subs,
         deps |-> deps, depsNull |-> depsNull, sub |-> sub,
         parent |-> parent, children |-> children, childNull |-> childNull,
         index |-> index, sdepsNull |-> sdepsNull, made |-> made,
         object |-> object, refs |-> refs,
         shallow |-> shallow, options |-> options,
         aborted |-> aborted, listeners |-> listeners,
         signalled |-> signalled, queue |-> queue,
         cur |-> cur, cursor |-> cursor,
         ret |-> NullVal, exc |-> FALSE, ran |-> <<>>, threw |-> threw,
         depth |-> 0, deep |-> 0,
         reads |-> reads,
         saw |-> saw, log |-> <<>>, top |-> Null]

\* ------------------------------------------------------------ observers
\* createObserver: a missing hook is NO_OP. External observers pass all
\* four hooks, and each hook records its call.
ExtHook(h, o, kind, x, v) ==
    [h EXCEPT !.log = Append(@, <<o, kind, x, v>>)]

\* ---------------------------------------------------------- Subscription
\* new Subscription(observable, observer, subscriberIndex, dependencyIndex)
NewSub(h, x, o, di) ==
    [obs |-> x, observer |-> o, sidx |-> Len(h.subs[x]), didx |-> di,
     snap |-> h.val[x], closed |-> FALSE, enabled |-> TRUE]

\* Subscription.create without the test of Flags.Disposed
CreateUnchecked(h, x, o, di) ==
    [h EXCEPT !.sub = [@ EXCEPT ![<<x, o>>] = NewSub(h, x, o, di)],
              !.subs = [@ EXCEPT ![x] = Append(@, o)]]

\* Subscription.create
Create(h, x, o, di) ==
    IF x \in h.disposed
    THEN IF o \in Ext THEN ExtHook(h, o, "complete", x, NullVal) ELSE h
    ELSE [h EXCEPT !.sub = [@ EXCEPT ![<<x, o>>] = NewSub(h, x, o, di)],
                   !.subs = [@ EXCEPT ![x] = Append(@, o)]]

\* Subscription.cleanup
Cleanup(h, x, o) == [h EXCEPT !.sub = [@ EXCEPT ![<<x, o>>] = NoSub]]

\* Subscription.unsubscribe, of the subscription of observer o to cell x.
\* The pop of an empty array gives undefined, which is stored at the index
\* before the assignment to its index field throws a TypeError.
Unsubscribe(h, x, o) ==
    LET r == h.sub[<<x, o>>] IN
    IF r.closed THEN h
    ELSE IF h.subs[r.obs] = <<>> \/ Last(h.subs[r.obs]) = Null
    THEN [h EXCEPT !.subs = [@ EXCEPT ![r.obs] =
                                SetAt(IF @ = <<>> THEN @ ELSE Front(@),
                                      r.sidx, Null)],
                   !.exc = TRUE]
    ELSE LET subscribers == h.subs[r.obs]
             i == r.sidx
             lastSubscription == Last(subscribers)
             popped == Front(subscribers)
             h1 == IF lastSubscription # o
                   THEN [h EXCEPT
                          !.subs = [@ EXCEPT ![r.obs] =
                                       SetAt(popped, i, lastSubscription)],
                          !.sub = [@ EXCEPT
                                    ![<<r.obs, lastSubscription>>].sidx = i]]
                   ELSE [h EXCEPT !.subs = [@ EXCEPT ![r.obs] = popped]]
         IN Cleanup(h1, x, o)

\* a set that leaves the forwarding subscription open
CancelForwardNever(h, target) == h

\* the cells the forward observer of target is subscribed to
Forwarded(h, target) == {s \in Cell : ~h.sub[<<s, target>>].closed}

\* this[$dependencies]?.unsubscribe()
CancelForward(h, target) ==
    IF Forwarded(h, target) = {} THEN h
    ELSE Unsubscribe(h, CHOOSE s \in Forwarded(h, target) : TRUE, target)

\* Subscription.disable
Disable(h, x, o) ==
    LET r == h.sub[<<x, o>>] IN
    IF ~r.enabled \/ r.closed THEN h
    ELSE LET subscribers == h.subs[r.obs]
             i == r.sidx
             lastSubscription == Last(subscribers)
             popped == Front(subscribers)
             h1 == [h EXCEPT !.sub = [@ EXCEPT ![<<x, o>>].enabled = FALSE]]
         IN IF lastSubscription # o
            THEN [h1 EXCEPT
                   !.subs = [@ EXCEPT ![r.obs] =
                                SetAt(popped, i, lastSubscription)],
                   !.sub = [@ EXCEPT
                             ![<<r.obs, lastSubscription>>].sidx = i]]
            ELSE [h1 EXCEPT !.subs = [@ EXCEPT ![r.obs] = popped]]

\* Subscription.enable
Enable(h, x, o) ==
    LET r == h.sub[<<x, o>>] IN
    IF r.enabled \/ r.closed THEN h
    ELSE [h EXCEPT !.sub = [@ EXCEPT ![<<x, o>>] =
                              [@ EXCEPT !.enabled = TRUE,
                                        !.sidx = Len(h.subs[r.obs])]],
                   !.subs = [@ EXCEPT ![r.obs] = Append(@, o)]]

\* the end of a hook of the external observer o of cell x: in the program
\* "unhook" the observer unsubscribes the subscription that called it, in
\* "dishook" it disables it
SelfRemove(h, x, o) ==
    IF h.prog = "unhook" THEN Unsubscribe(h, x, o)
    ELSE IF h.prog = "dishook" THEN Disable(h, x, o)
    ELSE h

\* Subscription.completeAll on the subscribers of cell x, from index i
RECURSIVE CompleteAll(_, _, _, _)
CompleteAll(h, x, i, length) ==
    IF i >= length THEN [h EXCEPT !.subs = [@ EXCEPT ![x] = <<>>]]
    ELSE LET o == h.subs[x][i + 1]
             h1 == IF o \in Ext
                   THEN ExtHook(h, o, "complete", x, NullVal) ELSE h
             h2 == [h1 EXCEPT !.sub = [@ EXCEPT ![<<x, o>>] =
                       [@ EXCEPT !.closed = TRUE, !.enabled = FALSE,
                                 !.obs = Null, !.observer = Null,
                                 !.sidx = -1]]]
         IN CompleteAll(h2, x, i + 1, length)

\* -------------------------------------------------------- current scope
\* setActiveScope(scope, index = 0)
SetActiveScope(h, n, i) == [h EXCEPT !.cur = n, !.cursor = i]

\* createDependency(scope, observable): subscribe the scope's observer and
\* store the subscription at the cursor
CreateDependency(h, n, x) ==
    [Create(h, x, n, h.cursor) EXCEPT !.deps = [@ EXCEPT ![n] = Append(@, x)],
                                      !.cursor = @ + 1]

\* reuseDependency(dependency): keep the subscription, refresh its snapshot
ReuseDependency(h, n, x) ==
    [h EXCEPT !.sub = [@ EXCEPT ![<<x, n>>].snap = h.val[x]],
              !.cursor = @ + 1]

\* removeDependencies(scope, from = 0): unsubscribe the dependencies from
\* index from on, then truncate the list
RECURSIVE UnsubscribeFrom(_, _, _)
UnsubscribeFrom(h, n, i) ==
    IF i >= Len(h.deps[n]) THEN h
    ELSE UnsubscribeFrom(Unsubscribe(h, h.deps[n][i + 1], n), n, i + 1)

RemoveDependencies(h, n, from) ==
    [UnsubscribeFrom(h, n, from) EXCEPT
        !.deps = [@ EXCEPT ![n] = SubSeq(@, 1, from)]]

\* observe without the comparison with the dependency at the cursor: every
\* read appends a dependency
ObserveAppends(h, n, x) ==
    IF n \in Plain \/ h.cur # n \/ n \in h.disposed THEN h
    ELSE CreateDependency(h, n, x)

\* ComputedRef.observe and BaseEffect.observe (the same code);
\* BaseScope.observe for a plain scope
Observe(h, n, x) ==
    IF n \in Plain THEN h
    ELSE IF h.cur # n \/ n \in h.disposed THEN h
    ELSE IF h.cursor < Len(h.deps[n])
         THEN LET y == h.deps[n][h.cursor + 1] IN
              IF h.sub[<<y, n>>].obs = x
              THEN ReuseDependency(h, n, x)
              ELSE CreateDependency(RemoveDependencies(h, n, h.cursor), n, x)
         ELSE CreateDependency(h, n, x)

\* ------------------------------------------------------------ scope tree
\* a removal that moves the last child without updating its index
RemoveFromParentNoIndex(h, n) ==
    LET p == h.parent[n]
        h1 == [h EXCEPT !.parent = [@ EXCEPT ![n] = Null]]
    IN IF p = Null \/ p \in h.childNull THEN h1
       ELSE LET pc == h1.children[p]
                i == h1.index[n]
                lastChild == Last(pc)
            IN [h1 EXCEPT !.children = [@ EXCEPT ![p] =
                                          Front(SetAt(pc, i, lastChild))]]

\* the pop-and-swap removal of scope n from its parent's child list
RemoveFromParent(h, n) ==
    LET p == h.parent[n]
        h1 == [h EXCEPT !.parent = [@ EXCEPT ![n] = Null]]
    IN IF p = Null \/ p \in h.childNull THEN h1
       ELSE LET pc == h1.children[p]
                i == h1.index[n]
                lastChild == Last(pc)
            IN [h1 EXCEPT !.children = [@ EXCEPT ![p] =
                                          Front(SetAt(pc, i, lastChild))],
                          !.index = [@ EXCEPT ![lastChild] = i]]

RECURSIVE Dispose(_, _), DisposeChildren(_, _, _)

\* the loop of disposeScope over the children it held
DisposeChildren(h, cs, i) ==
    IF i > Len(cs) THEN h
    ELSE DisposeChildren(Dispose(h, cs[i]), cs, i + 1)

\* disposeScope without the loop over the children
DisposeScopeShallow(h, n) ==
    RemoveFromParent([h EXCEPT !.childNull = @ \cup {n},
                               !.children = [@ EXCEPT ![n] = <<>>]], n)

\* disposeScope
DisposeScope(h, n) ==
    RemoveFromParent(
        DisposeChildren([h EXCEPT !.childNull = @ \cup {n},
                                  !.children = [@ EXCEPT ![n] = <<>>]],
                        h.children[n], 1),
        n)

\* BaseRef.dispose
DisposeRef(h, x) ==
    [CompleteAll(CancelForward(h, x), x, 0, Len(h.subs[x]))
       EXCEPT !.disposed = @ \cup {x}]

\* the end of ComputedRef.dispose: the subscribers are completed, the flag
\* is set and the dependency list is dropped
CompleteComputed(h, n) ==
    [CompleteAll(h, n, 0, Len(h.subs[n])) EXCEPT !.disposed = @ \cup {n},
                                                 !.depsNull = @ \cup {n}]

\* ComputedRef.dispose
DisposeComputed(h, n) ==
    IF n \in h.disposed THEN h
    ELSE CompleteComputed(RemoveDependencies(DisposeScope(h, n), n, 0), n)

\* a dispose that only sets Flags.Disposed
DisposeEffectFlagOnly(h, n) == [h EXCEPT !.disposed = @ \cup {n}]

\* BaseEffect.dispose
DisposeEffect(h, n) ==
    IF n \in h.disposed THEN h
    ELSE [RemoveDependencies(
            DisposeScope([h EXCEPT !.disposed = @ \cup {n},
                                   !.enabled = @ \ {n},
                                   !.queued = @ \ {n}], n),
            n, 0)
          EXCEPT !.depsNull = @ \cup {n}]

\* BaseScope.dispose
DisposePlain(h, n) ==
    IF n \in h.sdepsNull THEN h
    ELSE DisposeScope([h EXCEPT !.sdepsNull = @ \cup {n}], n)

\* x.dispose(), by the class of x
Dispose(h, n) ==
    IF n \in Src THEN DisposeRef(h, n)
    ELSE IF n \in Der THEN DisposeComputed(h, n)
    ELSE IF n \in Eff THEN DisposeEffect(h, n)
    ELSE DisposePlain(h, n)


\* --------------------------------------------------------- constructors
\* the scope option of a constructor: absent, null, or a scope
NoOption == "absent"

\* initScope(scope, options): the parent is options?.scope ?? currentScope,
\* so that an absent option and a null one both give the current scope; a
\* parent whose child list is null makes it throw
InitScope(h, n, scope) ==
    LET p == IF scope \in {NoOption, Null} THEN h.cur ELSE scope IN
    IF p # Null
    THEN IF p \in h.childNull THEN [h EXCEPT !.exc = TRUE]
         ELSE [h EXCEPT !.parent = [@ EXCEPT ![n] = p],
                        !.index = [@ EXCEPT ![n] = Len(h.children[p])],
                        !.children = [@ EXCEPT ![p] = Append(@, n),
                                               ![n] = <<>>],
                        !.childNull = @ \ {n}]
    ELSE [h EXCEPT !.parent = [@ EXCEPT ![n] = Null],
                   !.children = [@ EXCEPT ![n] = <<>>],
                   !.childNull = @ \ {n}]

\* the options of the object n hold the program's signal
WithSignal(h, n, signal) ==
    IF signal THEN [h EXCEPT !.signalled = @ \cup {n}] ELSE h

\* a constructor that threw leaves the heap h it started from: nothing
\* refers to the object it was building
Built(h, h1) == IF h1.exc THEN [h EXCEPT !.exc = TRUE] ELSE h1

\* new BaseScope(options): initScope, and a fresh set of dependencies; the
\* signal of the options is not read
Scoped(h, n) ==
    IF h.exc THEN h
    ELSE [h EXCEPT !.made = @ \cup {n}, !.sdepsNull = @ \ {n}]

NewScope(h, n, scope, signal) ==
    Built(h, Scoped(InitScope(WithSignal(h, n, signal), n, scope), n))

\* t is the scope the effect of "build" holds: it constructs one with a
\* null scope option unless it holds one that is not disposed
Nested(h) ==
    IF "t" \in h.made /\ "t" \notin h.childNull THEN h
    ELSE NewScope(h, "t", Null, FALSE)

\* the end of the constructor of ComputedRef, after initScope: a signal
\* that is aborted replaces the flags by Flags.Disposed, another one gets
\* dispose as a listener
Signalled(h, n, signal) ==
    IF h.exc THEN h
    ELSE IF ~signal THEN [h EXCEPT !.made = @ \cup {n}]
    ELSE IF h.aborted
         THEN [h EXCEPT !.made = @ \cup {n}, !.disposed = @ \cup {n},
                        !.dirty = @ \ {n}]
         ELSE [h EXCEPT !.made = @ \cup {n},
                        !.listeners = Append(@, n)]

\* new ComputedRef(options)
NewComputed(h, n, scope, signal) ==
    Built(h, Signalled(
        InitScope([WithSignal(h, n, signal) EXCEPT
                     !.dirty = @ \cup {n},
                     !.val = [@ EXCEPT ![n] = INITIAL_VALUE],
                     !.deps = [@ EXCEPT ![n] = <<>>]],
                  n, scope),
        n, signal))

\* ------------------------------------------------------------- programs
\* the nodes each program constructs
NodesOf(p) == IF p = "effect" THEN {"a", "k", "b", "d", "e"}
              ELSE IF p = "observed" THEN {"a", "k", "b", "d"}
              ELSE IF p = "diamond" THEN {"a", "b", "c", "d"}
              ELSE IF p = "faulty" THEN {"a", "k", "b", "d"}
              ELSE IF p = "build" THEN {"a"}
              ELSE IF p \in {"forward", "reentrant"} THEN {"a", "k", "b"}
              ELSE IF p = "struct" THEN {"k", "d"}
              ELSE IF p = "shallow" THEN {"a", "k"}
              ELSE IF p \in {"unhook", "dishook"} THEN {"a", "k", "b", "d"}
              ELSE {"a", "d", "e", "s", "t"}

\* the values the recipes would return on the current values of the
\* source refs
IdealB(h) == h.val["a"] + 1
IdealC(h) == IF h.val["a"] > 0 THEN 1 ELSE 0
IdealD(h) == IF h.prog = "diamond" THEN IdealB(h) + IdealC(h)
             ELSE IF h.prog \in {"tree", "faulty", "build", "struct"}
                  THEN h.val["a"] + 1
             ELSE IF Truthy(h.val["k"]) THEN IdealB(h)
             ELSE h.val["k"]
Ideal(h, x) == IF x \in h.disposed THEN h.val[x]
               ELSE IF x = "b" THEN IdealB(h)
               ELSE IF x = "c" THEN IdealC(h)
               ELSE IF x = "d" THEN IdealD(h)
               ELSE h.val[x]

RECURSIVE Get(_, _), Compute(_, _), Recompute(_, _), Recipe(_, _),
          RecipeD(_), Read(_, _, _), ThenRead(_, _, _, _),
          HasOutdated(_, _, _, _), Outdated(_, _, _, _, _, _),
          NotifyAll(_, _, _, _, _), ForwardValue(_, _, _),
          NextHook(_, _, _, _), SetRef(_, _, _),
          DirtyAll(_, _, _, _), OnDependencyDirty(_, _),
          OnDependencyChange(_, _)

\* ----------------------------------------------------------------- struct
\* struct.refs[K] = ref, after a constructor that did not throw
StoredRef(h, K) ==
    IF h.exc THEN h ELSE [h EXCEPT !.refs = [@ EXCEPT ![K] = @ + 1]]

\* BaseStruct.initPropertyRef(struct, K) without a value: an accessor gets a
\* computed ref whose getter is bound to the proxy, constructed without
\* options and so in the current scope; another property gets a source ref
\* holding the value of the object
InitPropertyRef(h, K) ==
    IF K = "full" THEN StoredRef(NewComputed(h, "b", NoOption, FALSE), K)
    ELSE StoredRef([h EXCEPT !.made = @ \cup {"a"},
                             !.val = [@ EXCEPT !["a"] = h.object]],
                   K)

\* target[K]: the value of the object itself; the getter of full runs with
\* the object as this and returns first + 1
TargetValue(h, K) == IF K = "first" THEN h.object ELSE h.object + 1

\* ref.get() of the property ref that was just made
GetMade(h, x) == IF h.exc THEN h ELSE Get(h, x)

\* BaseStruct.get: the read of property K through the proxy
StructGet(h, K) ==
    IF h.refs[K] > 0 THEN Get(h, PropertyRef(K))
    ELSE IF h.cur # Null THEN GetMade(InitPropertyRef(h, K), PropertyRef(K))
    ELSE [h EXCEPT !.ret = TargetValue(h, K)]

\* the value a get() returned reaches the recipe of frame n: the read is
\* recorded, unless the get() threw or the cell was disposed already
Noted(h, n, x, live) ==
    IF h.exc \/ ~live THEN h
    ELSE [h EXCEPT !.reads = [@ EXCEPT ![n] = Append(@, x)],
                   !.saw = [@ EXCEPT ![n] = Append(@, h.ret)]]

\* a read of cell x made by the recipe of frame n
Read(h, n, x) == Noted(Get(h, x), n, x, x \notin h.disposed)

\* a read of property K of the struct made by the recipe of frame n
StructRead(h, n, K) ==
    Noted(StructGet(h, K), n, PropertyRef(K), PropertyRef(K) \notin h.disposed)

\* the recipe returns f applied to the value it read last, unless the read
\* threw
Return(h, f) ==
    IF h.exc THEN h
    ELSE [h EXCEPT !.ret = IF f = "plus1" THEN h.ret + 1
                           ELSE IF f = "positive"
                                THEN (IF h.ret > 0 THEN 1 ELSE 0)
                           ELSE h.ret]

\* the recipe returns the sum of v and the value it read last
ReturnSum(h, v) == IF h.exc THEN h ELSE [h EXCEPT !.ret = v + h.ret]

\* the recipe goes on to read x: always ("then"), when the value it read
\* last is truthy ("and"), to add it to the value it read last ("plus"),
\* or after throwing an Error when the value it read last is truthy
\* ("unless")
ThenRead(h, n, x, how) ==
    IF h.exc \/ (how = "and" /\ ~Truthy(h.ret)) THEN h
    ELSE IF how = "unless" /\ Truthy(h.ret) THEN [h EXCEPT !.exc = TRUE]
    ELSE IF how = "plus" THEN ReturnSum(Read(h, n, x), h.ret)
    ELSE Read(h, n, x)

\* the recipe of d in each program
RecipeD(h) ==
    IF h.prog = "diamond" THEN ThenRead(Read(h, "d", "b"), "d", "c", "plus")
    ELSE IF h.prog \in {"tree", "build"}
         THEN Return(Read(h, "d", "a"), "plus1")
    ELSE IF h.prog = "struct"
         THEN Return(StructRead(h, "d", "first"), "plus1")
    ELSE IF h.prog = "faulty" THEN Read(h, "d", "b")
    ELSE ThenRead(Read(h, "d", "k"), "d", "b", "and")

\* the functions passed to computed() and Effect()
Recipe(h, n) ==
    IF n = "b" /\ h.prog = "faulty"
    THEN Return(ThenRead(Read(h, n, "k"), n, "a", "unless"), "plus1")
    ELSE IF n = "b" /\ h.prog = "struct"
         THEN Return(StructRead(h, n, "first"), "plus1")
    ELSE IF n = "b" THEN Return(Read(h, n, "a"), "plus1")
    ELSE IF n = "c" THEN Return(Read(h, n, "a"), "positive")
    ELSE IF n = "d" THEN RecipeD(h)
    ELSE IF h.prog = "tree" THEN Read(h, n, "d")
    ELSE IF h.prog = "struct" THEN StructRead(h, n, "full")
    ELSE IF h.prog = "build" THEN Nested(Read(h, n, "a"))
    ELSE ThenRead(Read(h, n, "k"), n, "d", "then")

\* the start of a recipe run: the run is recorded, with whether it was
\* started by n's own microtask rather than by a get() or a validation
\* and with the length of n's upstream list, and its reads are reset
BeginRun(h, n) ==
    [h EXCEPT !.ran = Append(@, <<n, h.top = n, Len(h.deps[n])>>),
              !.reads = [@ EXCEPT ![n] = <<>>],
              !.saw = [@ EXCEPT ![n] = <<>>]]

\* ----------------------------------------------------------- ComputedRef
\* ComputedRef.onDependencyDirty
OnDependencyDirty(h, n) ==
    IF n \in h.dirty THEN h
    ELSE LET h1 == [h EXCEPT !.dirty = @ \cup {n}]
         IN DirtyAll(h1, n, 0, Len(h1.subs[n]))

\* queueMicrotask(() => n[$compute]())
QueueMicrotask(h, n) == [h EXCEPT !.queue = Append(@, n)]

\* the part of ComputedRef.onDependencyChange after onDependencyDirty
QueueIfObserved(h, n) ==
    IF n \in h.queued \/ Len(h.subs[n]) = 0 THEN h
    ELSE QueueMicrotask([h EXCEPT !.queued = @ \cup {n}], n)

\* ComputedRef.onDependencyChange
OnDependencyChange(h, n) == QueueIfObserved(OnDependencyDirty(h, n), n)

\* BaseEffect.onDependencyChange
EffectOnDependencyChange(h, n) ==
    IF n \in h.queued THEN h
    ELSE QueueMicrotask([h EXCEPT !.queued = @ \cup {n}], n)

\* subscribers[i] is undefined, so that the read of its observer throws a
\* TypeError: the array became shorter than the length the loop read, or
\* holds a hole at i
Missing(h, x, i) == i >= Len(h.subs[x]) \/ h.subs[x][i + 1] = Null

\* Subscription.dirtyAll on the subscribers of x
DirtyAll(h, x, i, length) ==
    IF i >= length THEN h
    ELSE IF Missing(h, x, i) THEN [h EXCEPT !.exc = TRUE]
    ELSE LET o == h.sub[<<x, h.subs[x][i + 1]>>].observer
         IN DirtyAll(IF o \in Der THEN OnDependencyDirty(h, o)
                     ELSE IF o \in Ext
                          THEN SelfRemove(ExtHook(h, o, "dirty", x, NullVal),
                                          x, o)
                     ELSE h,
                     x, i + 1, length)

\* Subscription.notifyAll on the subscribers of x
NotifyAll(h, x, i, length, v) ==
    IF i >= length THEN h
    ELSE IF Missing(h, x, i) THEN [h EXCEPT !.exc = TRUE]
    ELSE LET o == h.sub[<<x, h.subs[x][i + 1]>>].observer
         IN NotifyAll(IF o \in Der THEN OnDependencyChange(h, o)
                      ELSE IF o \in Eff THEN EffectOnDependencyChange(h, o)
                      ELSE IF o \in Src THEN ForwardValue(h, o, v)
                      ELSE NextHook(h, o, x, v),
                      x, i + 1, length, v)

\* BaseRef.initValue with a value that is not a ref: an object is stored as
\* a store unless the ref has Flags.Shallow
InitValue(h, x, v) ==
    IF x \notin h.shallow /\ IsObject(v)
    THEN [h EXCEPT !.val = [@ EXCEPT ![x] = BaseStoreCreate(v)]]
    ELSE [h EXCEPT !.val = [@ EXCEPT ![x] = v]]

\* new BaseRef(value, options) without a signal: the flags are 0, the
\* options are kept, and the value is stored by initValue
NewRef(h, x, v, opt) ==
    InitValue([h EXCEPT !.shallow = @ \ {x}, !.disposed = @ \ {x},
                        !.subs = [@ EXCEPT ![x] = <<>>],
                        !.options = IF opt THEN @ \cup {x} ELSE @ \ {x},
                        !.made = @ \cup {x}],
              x, v)

\* BaseRef.forwardValue, the next hook of the forward observer of target
ForwardValue(h, target, value) ==
    IF target \in h.disposed THEN InitValue(h, target, value)
    ELSE NotifyAll(InitValue(h, target, value),
                   target, 0, Len(h.subs[target]), value)

\* a next hook is entered and left: depth counts the hooks that are
\* running, deep is the largest depth of the call
Enter(h) ==
    [h EXCEPT !.depth = @ + 1,
              !.deep = IF h.depth + 1 > @ THEN h.depth + 1 ELSE @]
Leave(h) == [h EXCEPT !.depth = @ - 1]

\* the next hook of an external observer. In the program "reentrant" the
\* observer of a writes to a: a.set(Math.min(v + 1, MaxA))
NextHook(h, o, x, v) ==
    IF h.prog = "reentrant" /\ x = "a"
    THEN Leave(SetRef(Enter(ExtHook(h, o, "next", x, v)), "a",
                      IF v < MaxA THEN v + 1 ELSE MaxA))
    ELSE SelfRemove(ExtHook(h, o, "next", x, v), x, o)

\* a validation that finds no dependency outdated
HasOutdatedNever(h, n, i, len) == [h EXCEPT !.ret = 0]

\* ComputedRef.hasOutdatedDependenciesAfterCompute; the answer is left in
\* ret (1: outdated, 0: not). Reading [$flags] of the null observable of a
\* closed subscription is a TypeError.
HasOutdated(h, n, i, len) ==
    IF i >= len THEN [h EXCEPT !.ret = 0]
    ELSE LET x == h.deps[n][i + 1]
             observable == h.sub[<<x, n>>].obs
         IN IF observable = Null THEN [h EXCEPT !.exc = TRUE]
            ELSE Outdated(IF observable \in h.dirty
                          THEN Compute(h, observable) ELSE h,
                          n, i, len, x, observable)

\* the comparison hasOutdatedDependenciesAfterCompute makes once the
\* dependency at index i has been validated
Outdated(h, n, i, len, x, observable) ==
    IF h.exc THEN h
    ELSE IF ~ObjectIs(h.val[observable], h.sub[<<x, n>>].snap)
         THEN [h EXCEPT !.ret = 1]
         ELSE HasOutdated(h, n, i + 1, len)

\* the part of ComputedRef[$compute] after the validation of the
\* dependencies
Validated(h, n) ==
    IF h.exc THEN h
    ELSE IF h.ret = 0 THEN h
    ELSE Recompute(h, n)

\* ComputedRef[$compute]. The length of a null [$dependencies] is a TypeError.
Compute(h, n) ==
    IF n \notin h.dirty THEN h
    ELSE IF h.val[n] # INITIAL_VALUE
         THEN Validated(IF n \in h.depsNull THEN [h EXCEPT !.exc = TRUE]
                        ELSE HasOutdated(h, n, 0, Len(h.deps[n])),
                        n)
         ELSE Recompute(h, n)

\* the dependencies the run did not read again are removed
Trim(h, n) ==
    IF Len(h.deps[n]) > h.cursor
    THEN RemoveDependencies(h, n, h.cursor) ELSE h

\* a computed value that differs from the cached one is stored and the
\* subscribers are notified
Publish(h, n, computedValue) ==
    IF ~ObjectIs(computedValue, h.val[n])
    THEN NotifyAll([h EXCEPT !.val = [@ EXCEPT ![n] = computedValue]],
                   n, 0, Len(h.subs[n]), computedValue)
    ELSE h

\* Dirty and Queued are cleared
ClearFlags(h, n) == [h EXCEPT !.dirty = @ \ {n}, !.queued = @ \ {n}]

\* the part of ComputedRef[$compute] after the recipe returned or threw
Computed(h, n, prevScope, prevDependencyIndex) ==
    IF h.exc \/ n \in h.depsNull
    THEN SetActiveScope([h EXCEPT !.exc = TRUE, !.threw = @ \cup {n}],
                        prevScope, prevDependencyIndex)
    ELSE SetActiveScope(ClearFlags(Publish(Trim(h, n), n, h.ret), n),
                        prevScope, prevDependencyIndex)

\* the part of ComputedRef[$compute] from setActiveScope on
Recompute(h, n) ==
    Computed(Recipe(BeginRun(SetActiveScope(h, n, 0), n), n),
             n, h.cur, h.cursor)

\* the end of get(): the value is left in ret
Returned(h, x) == [h EXCEPT !.ret = h.val[x]]

\* the part of ComputedRef.get after the validation: the read is tracked
\* by the active scope
Tracked(h, x) ==
    IF h.exc THEN h
    ELSE Returned(IF h.cur # Null THEN Observe(h, h.cur, x) ELSE h, x)

\* BaseRef.get and ComputedRef.get; the value returned is left in ret
Get(h, x) ==
    IF x \in Src
    THEN Returned(IF x \notin h.disposed /\ h.cur # Null
                  THEN Observe(h, h.cur, x) ELSE h,
                  x)
    ELSE IF x \in h.disposed THEN Returned(h, x)
    ELSE Tracked(IF x \in h.dirty THEN Compute(h, x) ELSE h, x)

\* set without the Object.is comparison
SetRefUnchecked(h, x, v) ==
    LET h1 == [h EXCEPT !.val = [@ EXCEPT ![x] = v]]
    IN IF x \in h1.disposed THEN h1
       ELSE NotifyAll(h1, x, 0, Len(h1.subs[x]), v)

\* BaseRef.set after the forwarding subscription was closed
Stored(h, x, v) ==
    IF ObjectIs(h.val[x], v) THEN h
    ELSE LET h1 == InitValue(h, x, v)
         IN IF x \in h1.disposed THEN h1
            ELSE NotifyAll(h1, x, 0, Len(h1.subs[x]), v)

\* BaseRef.set with a value that is not a ref
SetRef(h, x, v) == Stored(CancelForward(h, x), x, v)

\* -------------------------------------------------------------- BaseEffect
\* the loop of BaseEffect[$compute] disposing children[0], len times
RECURSIVE DisposeFirstChild(_, _, _)
DisposeFirstChild(h, n, len) ==
    IF len = 0 THEN h
    ELSE DisposeFirstChild(Dispose(h, h.children[n][1]), n, len - 1)

\* the dependencies the effect's run did not read again are removed, unless
\* the recipe threw
EffectTrim(h, n) ==
    IF ~h.exc /\ Len(h.deps[n]) > h.cursor
    THEN RemoveDependencies(h, n, h.cursor) ELSE h

\* BaseEffect.enable and BaseEffect.disable
EnableEffect(h, n) == [h EXCEPT !.enabled = @ \cup {n}]
DisableEffect(h, n) == [h EXCEPT !.enabled = @ \ {n}]

\* a microtask of the effect that does not test Flags.Enabled
EffectComputeAlways(h, n) ==
    SetActiveScope(
      EffectTrim(
        Recipe(BeginRun(DisposeFirstChild(
                          SetActiveScope([h EXCEPT !.queued = @ \ {n}], n, 0),
                          n, Len(h.children[n])),
                        n),
               n),
        n),
      h.cur, h.cursor)

\* BaseEffect[$compute]. Reading the length of a null child list is a
\* TypeError thrown before the try block is entered.
EffectCompute(h, n) ==
    LET h0 == [h EXCEPT !.queued = @ \ {n}] IN
    IF n \notin h0.enabled THEN h0
    ELSE IF n \in h0.childNull
         THEN [SetActiveScope(h0, n, 0) EXCEPT !.exc = TRUE]
         ELSE SetActiveScope(
                EffectTrim(
                  Recipe(BeginRun(DisposeFirstChild(SetActiveScope(h0, n, 0),
                                                    n, Len(h0.children[n])),
                                  n),
                         n),
                  n),
                h0.cur, h0.cursor)

\* the constructor of BaseEffect after its test of the signal: the flags,
\* the dependencies, initScope and the first run
FirstRun(h, n) ==
    IF h.exc THEN h ELSE EffectCompute([h EXCEPT !.made = @ \cup {n}], n)

\* a signal that is not aborted gets the dispose of n as a listener
Listening(h, n, signal) ==
    IF signal THEN [WithSignal(h, n, signal) EXCEPT
                      !.listeners = Append(@, n)]
    ELSE h

\* new BaseEffect(fn, options): an aborted signal makes the effect disposed
\* and detached without a run. The listener that a constructor leaves
\* behind when initScope throws belongs to the object that is dropped.
NewEffect(h, n, scope, signal) ==
    IF signal /\ h.aborted
    THEN [WithSignal(h, n, signal) EXCEPT
            !.made = @ \cup {n}, !.disposed = @ \cup {n},
            !.enabled = @ \ {n},
            !.parent = [@ EXCEPT ![n] = Null],
            !.childNull = @ \cup {n}]
    ELSE Built(h,
           FirstRun(
             InitScope([Listening(h, n, signal) EXCEPT
                          !.enabled = @ \cup {n},
                          !.deps = [@ EXCEPT ![n] = <<>>]],
                       n, scope),
             n))

\* the constructor of n, by its class
Construct(h, n, scope, signal) ==
    IF n \in Der THEN NewComputed(h, n, scope, signal)
    ELSE IF n \in Eff THEN NewEffect(h, n, scope, signal)
    ELSE NewScope(h, n, scope, signal)

\* the "abort" event of the signal calls the listeners in the order they
\* were added
RECURSIVE AbortAll(_, _, _)
AbortAll(h, ls, i) ==
    IF i > Len(ls) THEN h ELSE AbortAll(Dispose(h, ls[i]), ls, i + 1)

\* ------------------------------------------------------------- subscribe
\* BaseRef.subscribe and ComputedRef.subscribe by an external observer; the
\* first evaluation of a computed ref swallows the error it throws
SubscribeCell(h, o, x) ==
    Create(IF x \in Der /\ h.val[x] = INITIAL_VALUE /\ x \notin h.disposed
           THEN [Compute(h, x) EXCEPT !.exc = FALSE] ELSE h,
           x, o, -1)

\* ------------------------------------------------------------ forwarding
\* the end of BaseRef.forwardRef: target[$value] = source.get()
Adopt(h, target) ==
    IF h.exc THEN h ELSE [h EXCEPT !.val = [@ EXCEPT ![target] = h.ret]]

\* BaseRef.forwardRef: the forward observer subscribes to the source, and
\* the target takes the source's value
ForwardRef(h, target, source) ==
    Adopt(Get(SubscribeCell(h, target, source), source), target)

\* the end of BaseRef.set(ref): the subscribers are notified with the ref
Broadcast(h, x) ==
    IF h.exc \/ x \in h.disposed THEN h
    ELSE NotifyAll(h, x, 0, Len(h.subs[x]), RefValue)

\* BaseRef.set with a value that is a ref
SetRefTo(h, target, source) ==
    Broadcast(ForwardRef(CancelForward(h, target), target, source), target)

\* initPropertyRef(struct, "first", source) with a value that is a ref: the
\* new source ref is constructed with it and forwards it
InitPropertyRefTo(h, source) ==
    StoredRef(ForwardRef([h EXCEPT !.made = @ \cup {"a"}], "a", source),
              "first")

\* BaseStruct.set: the write of a value that is not a ref to property first
\* through the proxy; without a property ref it is Reflect.set on the object
StructSet(h, v) ==
    IF h.refs["first"] > 0 THEN SetRef(h, "a", v)
    ELSE [h EXCEPT !.object = v]

\* BaseStruct.set: the write of a ref to property first
StructSetRef(h, source) ==
    IF h.refs["first"] > 0 THEN SetRefTo(h, "a", source)
    ELSE InitPropertyRefTo(h, source)

\* a ref(struct, K) that makes a property ref at every call
StructRefAlways(h, K) == InitPropertyRef(h, K)

\* ref(struct, K): the property ref of K, made when there is none
StructRef(h, K) == IF h.refs[K] > 0 THEN h ELSE InitPropertyRef(h, K)

\* --------------------------------------------------------- construction
\* the heap after the constructors of program p, before the constructor of
\* its effect runs the effect for the first time
Constructed(p, a0, k0) ==
    [prog |-> p,
     val |-> [x \in Cell |-> IF x = "a" THEN a0
                             ELSE IF x = "k" THEN k0 ELSE INITIAL_VALUE],
     dirty |-> Der \cap NodesOf(p), queued |-> {}, disposed |-> {},
     enabled |-> Eff \cap NodesOf(p),
     subs |-> [x \in Cell |-> <<>>],
     deps |-> [n \in Consumer |-> <<>>], depsNull |-> {},
     sub |-> [ed \in Edge |-> NoSub],
     parent |-> [n \in ScopeNode |->
                   IF p = "tree" /\ n \in {"t", "d"} THEN "s"
                   ELSE IF p = "tree" /\ n = "e" THEN "t" ELSE Null],
     children |-> [n \in ScopeNode |->
                     IF p = "tree" /\ n = "s" THEN <<"t", "d">>
                     ELSE IF p = "tree" /\ n = "t" THEN <<"e">> ELSE <<>>],
     childNull |-> {},
     index |-> [n \in ScopeNode |->
                  IF p = "tree" /\ n = "d" THEN 1
                  ELSE IF p = "tree" /\ n \in {"t", "e"} THEN 0 ELSE -1],
     sdepsNull |-> {}, made |-> NodesOf(p),
     object |-> IF p = "struct" THEN a0 ELSE NullVal,
     refs |-> [K \in Key |-> 0],
     shallow |-> {}, options |-> {}, aborted |-> FALSE,
     listeners |-> <<>>, signalled |-> {},
     queue |-> <<>>, cur |-> Null, cursor |-> 0,
     ret |-> NullVal, exc |-> FALSE, ran |-> <<>>, threw |-> {},
     depth |-> 0, deep |-> 0,
     reads |-> [n \in Consumer |-> <<>>], saw |-> [n \in Consumer |-> <<>>],
     log |-> <<>>, top |-> Null]

\* the heap fields of the next state are those of h
Commit(h) ==
    /\ prog' = h.prog
    /\ val' = h.val /\ dirty' = h.dirty /\ queued' = h.queued
    /\ disposed' = h.disposed /\ enabled' = h.enabled /\ subs' = h.subs
    /\ deps' = h.deps /\ depsNull' = h.depsNull /\ sub' = h.sub
    /\ parent' = h.parent /\ children' = h.children
    /\ childNull' = h.childNull /\ index' = h.index
    /\ sdepsNull' = h.sdepsNull /\ queue' = h.queue
    /\ made' = h.made /\ aborted' = h.aborted
    /\ object' = h.object /\ refs' = h.refs
    /\ shallow' = h.shallow /\ options' = h.options
    /\ listeners' = h.listeners /\ signalled' = h.signalled
    /\ cur' = h.cur /\ cursor' = h.cursor
    /\ ret' = h.ret /\ exc' = h.exc /\ ran' = h.ran /\ reads' = h.reads
    /\ saw' = h.saw /\ log' = h.log /\ threw' = h.threw

\* the same for the initial state
Install(h) ==
    /\ prog = h.prog
    /\ val = h.val /\ dirty = h.dirty /\ queued = h.queued
    /\ disposed = h.disposed /\ enabled = h.enabled /\ subs = h.subs
    /\ deps = h.deps /\ depsNull = h.depsNull /\ sub = h.sub
    /\ parent = h.parent /\ children = h.children
    /\ childNull = h.childNull /\ index = h.index
    /\ sdepsNull = h.sdepsNull /\ queue = h.queue
    /\ made = h.made /\ aborted = h.aborted
    /\ object = h.object /\ refs = h.refs
    /\ shallow = h.shallow /\ options = h.options
    /\ listeners = h.listeners /\ signalled = h.signalled
    /\ cur = h.cur /\ cursor = h.cursor
    /\ ret = h.ret /\ exc = h.exc /\ ran = h.ran /\ reads = h.reads
    /\ saw = h.saw /\ log = h.log /\ threw = h.threw

\* ---------------------------------------------------------- bookkeeping
\* the subscriptions external observers hold
ExtEdges(h) == {ed \in Cell \X Ext : ~h.sub[ed].closed}

\* the log holds a next of value v to observer o from cell x
Delivered(h, x, o, v) ==
    \E i \in 1..Len(h.log) : h.log[i] = <<o, "next", x, v>>

\* cells the last run of n read, directly or through computed refs
RECURSIVE UpstreamOf(_, _, _)
UpstreamOf(h, n, fuel) ==
    IF fuel = 0 \/ n \notin Consumer THEN {}
    ELSE LET direct == Range(h.reads[n])
         IN direct \cup UNION {UpstreamOf(h, x, fuel - 1) : x \in direct}
Upstream(h, n) == UpstreamOf(h, n, Cardinality(Der) + 1)

\* the nodes whose recipe ran during the step, and how often n's did
Ran(h) == {h.ran[i][1] : i \in 1..Len(h.ran)}
DirectRuns(h) == {h.ran[i][1] : i \in {j \in 1..Len(h.ran) : h.ran[j][2]}}
RunsOf(h, n) == Cardinality({i \in 1..Len(h.ran) : h.ran[i][1] = n})

\* the hooks of log lg from index i on, applied to the warned edges
\* w.edges: a dirty from a cell warns its observer, a next from a computed
\* ref uses the warning up, and is missed when there was none
RECURSIVE Warned(_, _, _)
Warned(w, lg, i) ==
    IF i > Len(lg) THEN w
    ELSE LET ed == <<lg[i][3], lg[i][1]>>
         IN Warned(IF lg[i][2] = "dirty"
                   THEN [w EXCEPT !.edges = @ \cup {ed}]
                   ELSE IF lg[i][2] = "next" /\ lg[i][3] \in Der
                        THEN [edges |-> w.edges \ {ed},
                              missed |-> w.missed \/ ed \notin w.edges]
                   ELSE w,
                   lg, i + 1)

\* the warned edges after a step that left the heap h: a subscription that
\* was closed takes its warning with it
Heard(h) ==
    {ed \in Warned([edges |-> warned, missed |-> FALSE], h.log, 1).edges :
        ~h.sub[ed].closed}

\* the claims' bookkeeping after a step that left the heap h: a next with
\* the current recipe value settles what an observer is owed; a get of, a
\* recipe run of, or a subscription to a computed ref ends its lazy period
Bookkeep(h, got) ==
    /\ owed' = {ed \in owed : /\ ed \in ExtEdges(h)
                              /\ ~Delivered(h, ed[1], ed[2], Ideal(h, ed[1]))}
    /\ lazyw' = {n \in lazyw \ (Ran(h) \cup got) : Len(h.subs[n]) = 0}
    /\ warned' = Heard(h)
    /\ wcount' = wcount
    /\ druns' = IF prog = "diamond" THEN druns + RunsOf(h, "d") ELSE druns

\* the disposed getters of BaseScope, ComputedRef, BaseEffect and BaseRef
IsDisposed(h, n) == IF n \in Plain THEN n \in h.childNull
                    ELSE n \in h.disposed

\* the scopes below n in the scope tree of heap h
RECURSIVE DescendantsOf(_, _, _)
DescendantsOf(h, n, fuel) ==
    IF fuel = 0 \/ n \in h.childNull THEN {}
    ELSE LET cs == Range(h.children[n])
         IN cs \cup UNION {DescendantsOf(h, m, fuel - 1) : m \in cs}

\* the initial state holds the heap h, and nothing is owed or counted yet
Started(h) ==
    /\ Install(h)
    /\ op = <<"init", Null, NullVal>>
    /\ owed = {} /\ lazyw = {} /\ wcount = 0
    /\ warned = {}
    /\ druns = IF h.prog = "diamond" THEN RunsOf(h, "d") ELSE 0

\* the cells of B were constructed with a signal that was aborted already:
\* a source ref adds Flags.Disposed, a computed ref's flags become
\* Flags.Disposed
BornDisposed(h, B) ==
    [h EXCEPT !.disposed = @ \cup B, !.dirty = @ \ B]

\* the program: the constructor of an effect runs it for the first time,
\* and the diamond's observer subscribes to d
Program(p, a0, k0) ==
    IF "e" \in NodesOf(p) THEN EffectCompute(Constructed(p, a0, k0), "e")
    ELSE IF p = "diamond"
         THEN SubscribeCell(Constructed(p, a0, k0), "o1", "d")
    ELSE Constructed(p, a0, k0)

\* the initial states of program p, a and k starting in A0 and K0
InitOf(p, A0, K0) == \E a0 \in A0, k0 \in K0 : Started(Program(p, a0, k0))

\* ---------------------------------------------------------------- steps
\* user code runs between drains, and makes a further call only while
\* fewer than MaxQueue microtasks are pending
UserTurn == Len(queue) < MaxQueue

\* the step of a set(v) that left the heap h, with the claims' bookkeeping:
\* a write that changes a cell upstream of an observed computed ref makes
\* the observer owed a next, and starts the lazy period of the computed
\* refs downstream that have no subscriber
Written(h, x, v) ==
    LET changed == ~ObjectIs(val[x], v) /\ x \notin disposed
    IN /\ Commit(h)
       /\ owed' = IF changed
                  THEN {ed \in ExtEdges(h) :
                          /\ Ideal(h, ed[1]) # h.val[ed[1]]
                          /\ \/ ed \in owed
                             \/ x \in Upstream(Heap, ed[1])}
                  ELSE owed
       /\ lazyw' = IF changed
                   THEN lazyw \cup {n \in Der \ disposed :
                                      /\ x \in Upstream(Heap, n)
                                      /\ Len(subs[n]) = 0}
                   ELSE lazyw
       /\ warned' = Heard(h)
       /\ wcount' = IF prog = "diamond" /\ changed
                    THEN wcount + 1 ELSE wcount
       /\ druns' = druns
       /\ op' = <<"set", x, v>>

\* x.set(v) of a source ref, at top level
Set(x, v) ==
    /\ UserTurn
    /\ prog = "diamond" => wcount < MaxWrites
    /\ Written(SetRef(Heap, x, v), x, v)

\* the step of a call other than set that left the heap h
Called(h, got, call) ==
    Commit(h) /\ Bookkeep(h, got) /\ op' = call

\* a set that writes the cached value and then throws
SetComputedStores(h, n, v) == [h EXCEPT !.val[n] = v, !.exc = TRUE]

\* ComputedRef.set(v) of a computed ref made without a setter: false (0)
\* from a disposed one, the TypeError from a live one
SetComputed(h, n, v) ==
    IF n \in h.disposed THEN [h EXCEPT !.ret = 0]
    ELSE [h EXCEPT !.exc = TRUE]

\* n.set(v) of a computed ref, at top level
SetDerived(n, v) ==
    /\ UserTurn
    /\ Called(SetComputed(Heap, n, v), {}, <<"set", n, v>>)

\* x.get() of a computed ref, at top level
GetCell(x) ==
    /\ UserTurn
    /\ Called(Get(Heap, x), {x}, <<"get", x, NullVal>>)

\* x.subscribe(o) by an external observer
Subscribe(o, x) ==
    /\ UserTurn
    /\ sub[<<x, o>>].closed
    /\ Called(SubscribeCell(Heap, o, x), {}, <<"subscribe", x, NullVal>>)

\* subscription.unsubscribe() by an external observer
UnsubscribeExt(o, x) ==
    /\ UserTurn
    /\ ~sub[<<x, o>>].closed
    /\ Called(Unsubscribe(Heap, x, o), {}, <<"unsubscribe", x, NullVal>>)

\* n.dispose(), at top level or by the abort event of n's signal
DisposeNode(n) ==
    /\ UserTurn
    /\ Called(Dispose(Heap, n), {}, <<"dispose", n, NullVal>>)

\* subscription.disable() by an external observer
DisableExt(o, x) ==
    /\ UserTurn
    /\ ~sub[<<x, o>>].closed /\ sub[<<x, o>>].enabled
    /\ Called(Disable(Heap, x, o), {}, <<"disable", x, NullVal>>)

\* subscription.enable() by an external observer
EnableExt(o, x) ==
    /\ UserTurn
    /\ ~sub[<<x, o>>].closed /\ ~sub[<<x, o>>].enabled
    /\ Called(Enable(Heap, x, o), {}, <<"enable", x, NullVal>>)

\* n = Scope(options), computed(fn, options) or Effect(fn, options) at top
\* level, with the scope option absent, null or a constructed scope, and
\* with or without the signal
New(n, scope, signal) ==
    /\ UserTurn
    /\ n \notin made
    /\ scope \in {NoOption, Null} \cup (made \cap ScopeNode)
    /\ Called(Construct(Heap, n, scope, signal), {},
              <<IF scope = Null THEN "new-detached" ELSE "new", n, NullVal>>)

\* controller.abort()
Abort ==
    /\ UserTurn
    /\ ~aborted
    /\ Called(AbortAll([Heap EXCEPT !.aborted = TRUE], listeners, 1), {},
              <<"abort", Null, NullVal>>)

\* e.enable() and e.disable() at top level
EffectEnable(n) ==
    /\ UserTurn
    /\ n \notin enabled
    /\ Called(EnableEffect(Heap, n), {}, <<"enable", n, NullVal>>)

EffectDisable(n) ==
    /\ UserTurn
    /\ n \in enabled
    /\ Called(DisableEffect(Heap, n), {}, <<"disable", n, NullVal>>)

\* target.set(source): the target starts to forward from the source
Forward(target, source) ==
    /\ UserTurn
    /\ Called(SetRefTo(Heap, target, source), {source} \cap Der,
              <<"forward", source, NullVal>>)

\* u.first = v at top level
WriteProp(v) ==
    /\ UserTurn
    /\ Called(StructSet(Heap, v), {}, <<"write", "first", v>>)

\* u.first = source at top level
WriteRef(source) ==
    /\ UserTurn
    /\ Called(StructSetRef(Heap, source), {}, <<"write-ref", "first", NullVal>>)

\* u.K at top level
ReadProp(K) ==
    /\ UserTurn
    /\ Called(StructGet(Heap, K), {PropertyRef(K)} \cap Der,
              <<"read", K, NullVal>>)

\* ref(u, K) at top level
RefProp(K) ==
    /\ UserTurn
    /\ Called(StructRef(Heap, K), {}, <<"ref", K, NullVal>>)

\* ref(u, "first").set(v) at top level
RefSet(v) ==
    /\ UserTurn
    /\ Called(SetRef(StructRef(Heap, "first"), "a", v), {},
              <<"ref-set", "first", v>>)

\* the end of a microtask: an error it threw is reported and does not stop
\* the drain
Reported(h, thrown) == [h EXCEPT !.top = Null, !.exc = thrown \/ h.exc]

\* one microtask: () => n[$compute]()
RunTask(h, n) ==
    LET h0 == [h EXCEPT !.top = n, !.exc = FALSE]
    IN Reported(IF n \in Der THEN Compute(h0, n) ELSE EffectCompute(h0, n),
                h.exc)

\* the microtask queue runs until it is empty, in FIFO order
RECURSIVE DrainAll(_)
DrainAll(h) ==
    IF h.queue = <<>> THEN h
    ELSE DrainAll(RunTask([h EXCEPT !.queue = Tail(@)], Head(h.queue)))

\* user code returns to the event loop, which drains the microtask queue
Drain ==
    /\ queue # <<>>
    /\ Called(DrainAll(Heap), {}, <<"drain", Null, NullVal>>)

\* ------------------------------------------------------- specifications
\* the "effect" program
Init == InitOf("effect", AVals, BoolVals)

Next ==
    \/ \E v \in AVals : Set("a", v)
    \/ \E v \in BoolVals : Set("k", v)
    \/ \E x \in {"b", "d"} : GetCell(x)
    \/ Drain

Spec == Init /\ [][Next]_vars

\* the "observed" program
InitObs == InitOf("observed", AVals, BoolVals)

NextObs ==
    \/ \E v \in AVals : Set("a", v)
    \/ \E v \in BoolVals : Set("k", v)
    \/ \E x \in {"b", "d"} : GetCell(x)
    \/ Subscribe("o1", "d")
    \/ UnsubscribeExt("o1", "d")
    \/ Drain

SpecObs == InitObs /\ [][NextObs]_vars

\* the "observed" program with every kind of value written to k
InitValues == InitOf("observed", {0}, KVals)

NextValues ==
    \/ \E v \in KVals : Set("k", v)
    \/ \E x \in {"k", "d"} : Subscribe("o1", x)
    \/ \E x \in {"k", "d"} : UnsubscribeExt("o1", x)
    \/ GetCell("d")
    \/ Drain

SpecValues == InitValues /\ [][NextValues]_vars

\* the "diamond" program
InitDiamond == InitOf("diamond", AVals, {0})

NextDiamond ==
    \/ \E v \in AVals : Set("a", v)
    \/ \E x \in {"b", "c", "d"} : GetCell(x)
    \/ Drain

SpecDiamond == InitDiamond /\ [][NextDiamond]_vars

\* the "tree" program
InitTree == InitOf("tree", AVals, {0})

NextTree ==
    \/ \E v \in AVals : Set("a", v)
    \/ GetCell("d")
    \/ \E v \in AVals : SetDerived("d", v)
    \/ \E n \in {"a", "d", "e", "s", "t"} : DisposeNode(n)
    \/ Drain

SpecTree == InitTree /\ [][NextTree]_vars

\* the program "faulty": a, k, b = (if k then throw; a + 1), d = b, and an
\* external observer that subscribes to b or d
InitFaulty == InitOf("faulty", AVals, BoolVals)

NextFaulty ==
    \/ \E v \in AVals : Set("a", v)
    \/ \E v \in BoolVals : Set("k", v)
    \/ \E x \in {"b", "d"} : GetCell(x)
    \/ \E x \in {"b", "d"} : Subscribe("o1", x)
    \/ \E x \in {"b", "d"} : UnsubscribeExt("o1", x)
    \/ Drain

SpecFaulty == InitFaulty /\ [][NextFaulty]_vars

\* the program "observed" with the life cycle of its subscriptions and
\* cells: k and d may be born disposed, the observer subscribes, disables,
\* enables and unsubscribes (an enabled subscription), and k and d are
\* disposed
InitLife ==
    \E k0 \in BoolVals, B \in SUBSET {"k", "d"} :
        Started(BornDisposed(Program("observed", 0, k0), B))

NextLife ==
    \/ \E v \in BoolVals : Set("k", v)
    \/ GetCell("d")
    \/ \E x \in {"k", "d"} : Subscribe("o1", x)
    \/ \E x \in {"k", "d"} : sub[<<x, "o1">>].enabled /\ UnsubscribeExt("o1", x)
    \/ \E x \in {"k", "d"} : DisableExt("o1", x)
    \/ \E x \in {"k", "d"} : EnableExt("o1", x)
    \/ \E x \in {"k", "d"} : DisposeNode(x)
    \/ Drain

SpecLife == InitLife /\ [][NextLife]_vars

\* the program "build": a = Ref(0, {signal}), and then scopes, computed
\* refs and an effect constructed, aborted and disposed in any order while
\* no microtask is pending; until the signal is aborted every constructor
\* is given it, afterwards some are and some are not
InitBuild == Started(Listening(Program("build", 0, 0), "a", TRUE))

NextBuild ==
    \/ \E n \in {"s", "b", "d", "e"}, scope \in {NoOption, Null} \cup ScopeNode,
          signal \in BOOLEAN :
              queue = <<>> /\ (signal \/ aborted) /\ New(n, scope, signal)
    \/ queue = <<>> /\ Abort
    \/ \E v \in AVals : queue = <<>> /\ Set("a", v)
    \/ \E n \in made \ {"a"} : queue = <<>> /\ DisposeNode(n)
    \/ Drain

SpecBuild == InitBuild /\ [][NextBuild]_vars

\* the "effect" program with e.disable() and e.enable()
NextToggle ==
    \/ \E v \in AVals : Set("a", v)
    \/ \E v \in BoolVals : Set("k", v)
    \/ GetCell("d")
    \/ EffectEnable("e")
    \/ EffectDisable("e")
    \/ Drain

SpecToggle == Init /\ [][NextToggle]_vars

\* the "effect" program with e.enable(), e.disable() and e.dispose() called
\* at any time
NextInert ==
    \/ \E v \in AVals : Set("a", v)
    \/ \E v \in BoolVals : Set("k", v)
    \/ EffectEnable("e")
    \/ EffectDisable("e")
    \/ DisposeNode("e")
    \/ Drain

SpecInert == Init /\ [][NextInert]_vars

\* the program "forward": k is set to the ref a or to the computed ref b,
\* and to plain values; an external observer subscribes to k
InitForward == InitOf("forward", AVals, BoolVals)

NextForward ==
    \/ \E v \in AVals : Set("a", v)
    \/ \E v \in BoolVals : Set("k", v)
    \/ \E s \in {"a", "b"} : Forward("k", s)
    \/ Subscribe("o1", "k")
    \/ UnsubscribeExt("o1", "k")
    \/ \E x \in {"a", "k", "b"} : DisposeNode(x)
    \/ Drain

SpecForward == InitForward /\ [][NextForward]_vars

\* the program "reentrant": the next hook of the observer of a writes to a
InitReentrant == InitOf("reentrant", AVals, BoolVals)

NextReentrant ==
    \/ \E v \in AVals : Set("a", v)
    \/ \E v \in BoolVals : Set("k", v)
    \/ \E x \in {"a", "k", "b"} : Subscribe("o1", x)
    \/ \E x \in {"a", "k", "b"} : UnsubscribeExt("o1", x)
    \/ GetCell("b")
    \/ Drain

SpecReentrant == InitReentrant /\ [][NextReentrant]_vars

\* the program "struct": u = Struct({first, get full() {return this.first +
\* 1}}), the source ref k, d = computed(() => u.first + 1), and the effect
\* e = Effect(() => u.full) that the program may construct
InitStruct == InitOf("struct", AVals, BoolVals)

NextStruct ==
    \/ \E v \in AVals : WriteProp(v)
    \/ WriteRef("k")
    \/ \E K \in Key : ReadProp(K)
    \/ \E K \in Key : RefProp(K)
    \/ \E v \in AVals : RefSet(v)
    \/ \E v \in BoolVals : Set("k", v)
    \/ GetCell("d")
    \/ New("e", NoOption, FALSE)
    \/ Drain

SpecStruct == InitStruct /\ [][NextStruct]_vars

\* the "diamond" program, whose observer also subscribes to a, and
\* disables, enables and unsubscribes that subscription in any order
NextSubs ==
    \/ \E v \in AVals : Set("a", v)
    \/ Len(subs["a"]) < MaxSubs /\ Subscribe("o1", "a")
    \/ UnsubscribeExt("o1", "a")
    \/ DisableExt("o1", "a")
    \/ EnableExt("o1", "a")
    \/ GetCell("d")
    \/ Drain

SpecSubs == InitDiamond /\ [][NextSubs]_vars

\* the programs "unhook" and "dishook": a, k, b and d of "observed", and an
\* observer whose hooks unsubscribe or disable the subscription they are
\* called through
InitSelf == \E p \in {"unhook", "dishook"} : InitOf(p, AVals, BoolVals)

NextSelf ==
    \/ \E v \in AVals : Set("a", v)
    \/ \E v \in BoolVals : Set("k", v)
    \/ \E x \in {"a", "b"} : Subscribe("o1", x)
    \/ \E x \in {"a", "b"} : EnableExt("o1", x)
    \/ \E x \in {"b", "d"} : GetCell(x)
    \/ Drain

SpecSelf == InitSelf /\ [][NextSelf]_vars

\* the program "shallow": a = new BaseRef(a0, {shallow}) and k = new
\* BaseRef(k0), whose values are numbers or a plain object, and an external
\* observer of a
ShallowVals == {0, 1, ObjectVal}

InitShallow ==
    \E a0 \in ShallowVals, k0 \in ShallowVals, opt \in BOOLEAN :
        Started(NewRef(NewRef(Constructed("shallow", a0, k0), "a", a0, opt),
                       "k", k0, FALSE))

NextShallow ==
    \/ \E x \in {"a", "k"}, v \in ShallowVals : Set(x, v)
    \/ Forward("a", "k")
    \/ Subscribe("o1", "a")
    \/ UnsubscribeExt("o1", "a")
    \/ \E x \in {"a", "k"} : DisposeNode(x)

SpecShallow == InitShallow /\ [][NextShallow]_vars

\* ---------------------------------------------------------------- claims
\* C1: glitch-freeness. At any point, a get() of a computed ref that is not
\* disposed and that returns normally returns the value of its recipe on
\* the current values of the source refs.
GlitchFree ==
    (op[1] = "get" /\ ~exc /\ op[2] \notin disposed)
        => ret = Ideal(Heap, op[2])

\* C2: if a computed ref has a subscriber and a write to a source ref
\* upstream of it makes its recipe's result differ from its cached value,
\* then once the microtask queue has drained the subscriber's next hook
\* has been called with the up-to-date value.
SubscriberHearsChange == queue = <<>> => owed = {}

\* C3: for an enabled effect that is not disposed, whenever a cell it read
\* during its most recent run changes value, the effect has run again by
\* the end of the following microtask drain: with the queue drained, every
\* value the effect's last run read is the current value of the cell's
\* recipe.
EffectSeesChange ==
    (queue = <<>> /\ "e" \in enabled /\ "e" \notin disposed)
        => \A i \in DOMAIN reads["e"] :
               saw["e"][i] = Ideal(Heap, reads["e"][i])

\* C4: effect batching. After a burst of writes to source refs, an enabled
\* effect that depends on a written cell runs exactly once during the
\* following microtask drain: no drain runs the effect's recipe twice.
EffectRunsOncePerDrain ==
    op[1] = "drain"
        => Cardinality({i \in 1..Len(ran) : ran[i][1] = "e"}) <= 1

\* C5: the diamond. With b and c reading a, d reading b and c and a
\* subscriber on d, one write to a makes d's recipe run exactly once more
\* (twice in all, never three times), d is never computed from one updated
\* and one stale branch, and afterwards d.get() returns the value derived
\* from the new a.
DiamondRunsOnce ==
    (prog = "diamond" /\ wcount <= 1)
        => /\ druns <= wcount + 1
           /\ \E x \in AVals : saw["d"] = <<x + 1, IF x > 0 THEN 1 ELSE 0>>
           /\ queue = <<>>
                => /\ druns = wcount + 1
                   /\ Get(Heap, "d").ret = IdealD(Heap)

\* a drain after the one write has run d's recipe the second time
DiamondRunsOnceWitness ==
    /\ prog = "diamond" /\ wcount = 1 /\ druns = 2
    /\ op[1] = "drain" /\ <<"d", TRUE, 2>> \in Range(ran)
    /\ val["d"] = IdealD(Heap)

\* C6: no-subscriber quiescence. A write to a source ref upstream of a
\* computed ref that has no subscriber only marks the computed ref Dirty:
\* the write does not queue it, and its recipe is not invoked (by the
\* write, or by a microtask of the following drain) until its next get().
LazyUntilGet ==
    /\ \A n \in Der, x \in Src, v \in KVals \cup AVals :
          Len(subs[n]) = 0
             => LET h == SetRef(Heap, x, v)
                IN (n \in h.queued => n \in queued) /\ n \notin Ran(h)
    /\ queue # <<>>
          => \A n \in lazyw : n \notin DirectRuns(DrainAll(Heap))

\* C7: after a recipe run of a computed ref or an effect, its upstream list
\* is exactly the sequence of cells the run read, in read order, each
\* through a live subscription; a cell is subscribed to by exactly the
\* consumers that read it; and a write to a cell that no longer is read
\* by the consumer, directly or through computed refs, neither marks the
\* consumer Dirty, nor queues it, nor invokes its recipe.
UpstreamIsLastReads ==
    /\ \A n \in Consumer \cap NodesOf(prog) :
          /\ deps[n] = reads[n]
          /\ \A i \in 1..Len(deps[n]) :
                LET r == sub[<<deps[n][i], n>>]
                IN ~r.closed /\ r.obs = deps[n][i] /\ r.observer = n
                   /\ r.didx = i - 1
                   /\ subs[r.obs][r.sidx + 1] = n
          /\ \A x \in Cell :
                Count(subs[x], n) = Count(deps[n], x) /\ Count(deps[n], x) <= 1
    /\ \A n \in Consumer, x \in Src, v \in KVals \cup AVals :
          x \notin Upstream(Heap, n)
             => LET h == SetRef(Heap, x, v)
                IN /\ n \in h.dirty <=> n \in dirty
                   /\ n \in h.queued <=> n \in queued
                   /\ n \notin Ran(h)

\* a run of d's recipe began with k and b in d's upstream list, read a
\* falsy k alone, and dropped b: b has no subscriber left
UpstreamIsLastReadsWitness ==
    /\ \E i \in 1..Len(ran) : ran[i][1] = "d" /\ ran[i][3] = 2
    /\ reads["d"] = <<"k">> /\ deps["d"] = <<"k">>
    /\ subs["b"] = <<>> /\ sub[<<"b", "d">>].closed
    /\ val["b"] # INITIAL_VALUE

\* C8 as amended: for every source ref, a set(v) with v identical to the
\* stored value under Object.is (NaN is NaN, +0 is not -0) stores nothing
\* and notifies no observer: no hook is called, nothing is marked Dirty,
\* nothing is queued.
SetSameValueIsQuiet ==
    \A x \in Src, v \in KVals :
        ObjectIs(val[x], v)
           => LET h == SetRef(Heap, x, v)
              IN /\ h.val = val /\ h.log = <<>> /\ h.queue = queue
                 /\ h.dirty = dirty /\ h.queued = queued

\* k.set(NaN) on a k that holds NaN, with o1 and d subscribed to k: no
\* hook of o1 was called and d was not marked
SetSameValueIsQuietWitness ==
    /\ op = <<"set", "k", NaN>> /\ log = <<>>
    /\ subs["k"] = <<"o1", "d">> /\ "d" \notin dirty /\ queue = <<>>

\* C8 as stated: the same with the same-value-zero comparison (NaN equals
\* NaN, +0 equals -0).
SetSameValueZeroIsQuiet ==
    \A x \in Src, v \in KVals :
        SameValueZero(val[x], v)
           => LET h == SetRef(Heap, x, v)
              IN /\ h.val = val /\ h.log = <<>> /\ h.queue = queue
                 /\ h.dirty = dirty /\ h.queued = queued

\* C9: for every disposed cell or effect c, at every quiescent point no
\* other cell's subscriber list holds a subscription owned by c and no
\* other consumer's upstream list holds a subscription to c.
DisposedHasNoEdges ==
    queue = <<>>
        => \A c \in disposed :
              /\ \A x \in Cell \ {c} : c \notin Range(subs[x])
              /\ \A n \in Consumer \ {c} : c \notin Range(deps[n])

\* C10: after dispose() of a scope, computed ref or effect returns, the
\* node and every descendant in its scope tree report disposed, the node's
\* child list is null and the node is in no child list, its former
\* parent's included.
DisposeCascades ==
    /\ \A n \in ScopeNode \cap NodesOf(prog) :
          LET h == Dispose(Heap, n)
              below == DescendantsOf(Heap, n, Cardinality(ScopeNode))
          IN /\ ~h.exc
             /\ \A m \in {n} \cup below : IsDisposed(h, m)
             /\ n \in h.childNull /\ h.parent[n] = Null
             /\ \A p \in ScopeNode : n \notin Range(h.children[p])
    /\ \A n \in ScopeNode :
          op = <<"dispose", n, NullVal>>
             => /\ ~exc /\ IsDisposed(Heap, n) /\ n \in childNull
                /\ \A p \in ScopeNode : n \notin Range(children[p])

\* s.dispose() was called while t, d and e were its live descendants (t
\* and d still hold the indexes they were given in s's child list, and e
\* in t's): all four are disposed and out of the tree
DisposeCascadesWitness ==
    /\ op = <<"dispose", "s", NullVal>>
    /\ {"s", "t"} \subseteq childNull /\ {"d", "e"} \subseteq disposed
    /\ \A n \in ScopeNode : parent[n] = Null
    /\ index["t"] = 0 /\ index["d"] = 1 /\ index["e"] = 0
    /\ sub[<<"d", "e">>].closed /\ deps["e"] = <<>>

\* C12: once an effect is disposed, by its own dispose() or by that of an
\* ancestor scope, its recipe is not invoked again, a re-run that was queued
\* before the disposal included, and no cell's subscriber list holds it.
EffectStaysDisposed ==
    "e" \in disposed
        => /\ \A i \in 1..Len(ran) : ran[i][1] # "e"
           /\ "e" \notin Ran(DrainAll(Heap))
           /\ \A x \in Cell : "e" \notin Range(subs[x])

\* the scope above the effect was disposed while the effect's re-run was
\* queued: the microtask is still pending, and d no longer holds the effect
EffectStaysDisposedWitness ==
    /\ op = <<"dispose", "t", NullVal>>
    /\ "e" \in disposed /\ "e" \in Range(queue)
    /\ "d" \notin disposed /\ subs["d"] = <<>>

\* C16: set() on a disposed source ref changes no state: the stored value
\* stays what it was at the disposal, and no observer is notified.
WriteAfterDisposeIgnored ==
    \A x \in Src \cap disposed, v \in AVals :
        LET h == SetRef(Heap, x, v)
        IN h.val = val /\ h.log = <<>> /\ h.queue = queue /\ h.subs = subs

\* C19: when the recipe of a computed ref throws inside get(), the error
\* is re-thrown to the caller and the error hook of every observer
\* subscribed to the computed ref is called.
ErrorReachesObservers ==
    (op[1] = "get" /\ op[2] \in threw /\ exc)
        => \A o \in Ext :
              ~sub[<<op[2], o>>].closed
                 => \E i \in 1..Len(log) :
                       log[i][1] = o /\ log[i][2] = "error"

\* C20: a computed ref whose recipe has thrown stays usable: whenever the
\* source values are such that its recipe succeeds, get() returns normally
\* the value of the recipe on the current source values.
UsableAfterThrow ==
    \A x \in threw :
        ~Truthy(val["k"])
            => LET h == Get(Heap, x)
               IN ~h.exc /\ h.ret = Ideal(Heap, x)

\* C13: disposing a live cell invokes the complete hook of every subscription
\* that is not unsubscribed, enabled or disabled, exactly once, and a second
\* dispose() invokes no hook
CompleteOnceOnDispose ==
    \A x \in {"k", "d"} \ disposed, o \in Ext :
        ~sub[<<x, o>>].closed =>
            /\ Count(Dispose(Heap, x).log, <<o, "complete", x, NullVal>>) = 1
            /\ Dispose(Dispose(Heap, x), x).log = Dispose(Heap, x).log

\* C14: subscribe() on a disposed cell invokes the complete hook once, leaves
\* the subscription closed and not enabled, adds nothing to the subscribers
\* of the cell, and a disposed cell invokes no next hook
SubscribeAfterDispose ==
    /\ \A x \in {"k", "d"} \cap disposed, o \in Ext :
          sub[<<x, o>>].closed =>
              LET h == SubscribeCell(Heap, o, x) IN
              /\ h.log = <<<<o, "complete", x, NullVal>>>>
              /\ h.sub[<<x, o>>].closed /\ ~h.sub[<<x, o>>].enabled
              /\ h.subs = subs /\ h.sub = sub /\ h.val = val
              /\ ~h.exc
    /\ \A i \in 1..Len(log) :
          log[i][2] = "next" => log[i][3] \notin disposed

SubscribeAfterDisposeWitness ==
    /\ op = <<"subscribe", "d", NullVal>>
    /\ "d" \in disposed /\ val["d"] = INITIAL_VALUE
    /\ log = <<<<"o1", "complete", "d", NullVal>>>>
    /\ sub[<<"d", "o1">>].closed /\ subs["d"] = <<>>

\* C11: after any constructions and disposals, every child x of a scope s
\* that is not disposed has x.parent = s and s.children[x.index] = x, and
\* no child is listed twice
TreeConsistent ==
    \A s \in made \cap ScopeNode :
        ~IsDisposed(Heap, s) =>
            \A i \in 1..Len(children[s]) :
                /\ parent[children[s][i]] = s
                /\ index[children[s][i]] = i - 1
                /\ \A j \in 1..Len(children[s]) :
                      children[s][j] = children[s][i] => j = i

\* e, d and b were constructed in this order as the children of s, and the
\* first of them was disposed: the last one took its place
TreeConsistentWitness ==
    /\ op = <<"dispose", "e", NullVal>>
    /\ listeners = <<"a", "e", "d", "b">>
    /\ "s" \notin childNull /\ children["s"] = <<"b", "d">>
    /\ index["b"] = 0 /\ index["d"] = 1
    /\ parent["e"] = Null /\ "e" \in disposed

\* C15: once the signal is aborted, every object that was constructed with
\* it is disposed, whether it was constructed before or after the abort,
\* and an effect constructed after it has not run
SignalDisposes ==
    /\ aborted => \A n \in made \cap signalled : IsDisposed(Heap, n)
    /\ (op[1] \in {"new", "new-detached"} /\ aborted
            /\ op[2] \in Eff \cap signalled) => ran = <<>>

\* C17: a constructor given a disposed parent throws, constructs nothing and
\* leaves every child list and parent link as it was
DisposedParentRejects ==
    \A n \in {"s", "b", "d", "e"} \ made, p \in made \cap ScopeNode,
       signal \in BOOLEAN :
        IsDisposed(Heap, p) =>
            LET h == Construct(Heap, n, p, signal) IN
            /\ h.exc /\ n \notin h.made
            /\ h.children = children /\ h.childNull = childNull
            /\ h.parent = parent

\* C18: a scope constructed with a null scope option, at top level or by
\* the recipe of the effect, has no parent and is in no child list
DetachedHasNoParent ==
    /\ (op[1] = "new-detached" /\ ~exc) =>
          /\ parent[op[2]] = Null
          /\ \A s \in ScopeNode : op[2] \notin Range(children[s])
    /\ "t" \in made =>
          /\ parent["t"] = Null
          /\ \A s \in ScopeNode : "t" \notin Range(children[s])

\* C29: when a Dirty computed ref that holds a cached value is validated and
\* no dependency differs from its snapshot, the recipe is not invoked, the
\* cached value is kept, and Dirty and Queued are cleared
ValidationClearsFlags ==
    \A n \in (Der \cap dirty) \ disposed :
        val[n] # INITIAL_VALUE =>
            LET h == Compute(Heap, n) IN
            (~h.exc /\ n \notin Ran(h)) =>
                /\ h.val[n] = val[n]
                /\ n \notin h.dirty /\ n \notin h.queued

\* C30: whenever a computed ref is Dirty, every computed ref that holds a
\* live subscription to it is Dirty too
DirtyDownwardClosed ==
    \A x \in (Der \cap dirty) \ disposed, n \in Der \ disposed :
        (~sub[<<x, n>>].closed /\ sub[<<x, n>>].obs = x) => n \in dirty

\* C23: a step that leaves the effect disabled has not run its recipe, and
\* when the effect is enabled a change of its dependency k re-runs the
\* recipe in the drain that follows, also after a change it missed while
\* it was disabled
DisabledEffectIdle ==
    /\ "e" \notin enabled => \A i \in 1..Len(ran) : ran[i][1] # "e"
    /\ "e" \in enabled =>
          \A v \in BoolVals :
              ~ObjectIs(val["k"], v) =>
                  "e" \in Ran(DrainAll(SetRef(Heap, "k", v)))

\* the effect was enabled again after it missed a change of k
DisabledEffectIdleWitness ==
    /\ op = <<"enable", "e", NullVal>>
    /\ "e" \in enabled /\ queue = <<>>
    /\ saw["e"][1] # val["k"]

\* C22: a re-run of the effect disposes every child it held and removes it
\* from the child list, which afterwards holds only the children the run
\* created (the scope t)
RerunDisposesChildren ==
    ("e" \in (made \cap enabled) \ childNull /\ cur = Null) =>
        /\ Range(EffectCompute(Heap, "e").children["e"]) \subseteq {"t"}
        /\ \A x \in Range(children["e"]) \ {"t"} :
              /\ IsDisposed(EffectCompute(Heap, "e"), x)
              /\ EffectCompute(Heap, "e").parent[x] = Null

\* C21: while k forwards from a cell, every change of that cell's value is
\* adopted by k and sent to k's subscribers; a plain value
\* set on k ends the forwarding and leaves the former source as it was, and
\* later writes to the former source neither change k nor notify k's
\* subscribers
ForwardingFollows ==
    /\ "a" \in Forwarded(Heap, "k") =>
          \A v \in AVals :
              ~ObjectIs(val["a"], v) =>
                  LET h == SetRef(Heap, "a", v) IN
                  /\ h.val["k"] = v
                  /\ ~sub[<<"k", "o1">>].closed =>
                        Delivered(h, "k", "o1", v)
    /\ "b" \in Forwarded(Heap, "k") =>
          LET h == DrainAll(Heap) IN
          h.val["b"] # val["b"] =>
              /\ h.val["k"] = h.val["b"]
              /\ ~sub[<<"k", "o1">>].closed =>
                    Delivered(h, "k", "o1", h.val["b"])
    /\ Forwarded(Heap, "k") # {} =>
          \A w \in BoolVals :
              LET h1 == SetRef(Heap, "k", w) IN
              /\ Forwarded(h1, "k") = {}
              /\ h1.val["a"] = val["a"] /\ h1.val["b"] = val["b"]
              /\ h1.val["k"] = w
              /\ \A v \in AVals :
                    LET h2 == DrainAll(SetRef([h1 EXCEPT !.log = <<>>],
                                              "a", v))
                    IN /\ h2.val["k"] = w
                       /\ \A i \in 1..Len(h2.log) : h2.log[i][3] # "k"

\* k forwards from a, a was written, and the observer of k received the
\* value
ForwardingFollowsWitness ==
    /\ op[1] = "set" /\ op[2] = "a"
    /\ Forwarded(Heap, "k") = {"a"}
    /\ log = <<<<"o1", "next", "k", val["a"]>>>>
    /\ val["k"] = val["a"]

\* C27: a write made inside a next hook does not nest: no next hook is
\* entered while another one is still running
HooksDoNotNest ==
    \A v \in AVals : SetRef(Heap, "a", v).deep <= 1

\* The state of cell n that a refused set must leave alone: its cached
\* value, its flags and its subscriber list.
CellState(h, n) ==
    <<h.val[n], n \in h.dirty, n \in h.queued, n \in h.disposed, h.subs[n]>>

\* C28 (as stated): set() on a computed ref made without a setter throws and
\* leaves the cached value, the flags and the subscriber list unchanged.
ReadonlySetThrows ==
    \A n \in Der \cap NodesOf(prog), v \in AVals :
        LET h == SetComputed(Heap, n, v)
        IN h.exc /\ CellState(h, n) = CellState(Heap, n)

\* C28 (amended): set() on a computed ref made without a setter leaves the
\* cached value, the flags and the subscriber list unchanged; it throws
\* when the ref is live and returns false without throwing when the ref is
\* disposed.
ReadonlySetRefused ==
    \A n \in Der \cap NodesOf(prog), v \in AVals :
        LET h == SetComputed(Heap, n, v)
        IN /\ CellState(h, n) = CellState(Heap, n)
           /\ h.exc = (n \notin disposed)
           /\ n \in disposed => h.ret = 0

\* a set on the live d, already computed, has just thrown
ReadonlySetRefusedWitness ==
    /\ op[1] = "set" /\ op[2] = "d" /\ exc
    /\ "d" \notin disposed /\ val["d"] # INITIAL_VALUE /\ op[3] # val["d"]

\* C24: once struct.refs holds a property ref for K, no other ref is ever
\* stored for K: ref(u, K), the reads and the writes of K find that one, and
\* a write goes to it and leaves the object alone.
PropertyRefStable ==
    /\ \A K \in Key : refs[K] <= 1
    /\ \A K \in Key : refs[K] = 1 =>
          /\ StructRef(Heap, K).refs[K] = 1
          /\ StructGet(Heap, K).refs[K] = 1
    /\ refs["first"] = 1 =>
          /\ \A v \in AVals : /\ StructSet(Heap, v).refs["first"] = 1
                              /\ StructSet(Heap, v).object = object
                              /\ StructSet(Heap, v).val["a"] = v
          /\ StructSetRef(Heap, "k").refs["first"] = 1

\* ref(u, "first") was just called on a struct whose property ref of first
\* is already subscribed to
PropertyRefStableWitness ==
    /\ op = <<"ref", "first", NullVal>>
    /\ refs["first"] = 1 /\ Len(subs["a"]) > 0

\* C25: a read of u.first returns the value written last, through the proxy
\* or through the property ref, and u.full and the computed ref d, read at
\* top level or by the effect, are first + 1 for that value.
ReadsFollowWrites ==
    LET first == StructGet(Heap, "first").ret IN
    /\ op[1] \in {"write", "ref-set"} => first = op[3]
    /\ op[1] = "write-ref" => first = val["k"]
    /\ StructGet(Heap, "full").ret = first + 1
    /\ Get(Heap, "d").ret = first + 1
    /\ (\E i \in 1..Len(ran) : ran[i][1] = "e") => saw["e"] = <<first + 1>>

\* C26: a source ref constructed with the option shallow: true stores a plain
\* object as that object, one constructed without it stores the store made
\* of the object, and both store a number as it is; the same holds for the
\* values set later.
ShallowStoresRaw ==
    \A x \in {"a", "k"}, v \in ShallowVals :
        /\ \A opt \in BOOLEAN :
              NewRef(Heap, x, v, opt).val[x] =
                  IF IsObject(v) /\ ~opt THEN BaseStoreCreate(v) ELSE v
        /\ x \notin disposed =>
              SetRef(Heap, x, v).val[x] =
                  IF IsObject(v) /\ x \notin options THEN BaseStoreCreate(v)
                  ELSE v

\* the subscriber list of cell x in heap h holds exactly the enabled
\* subscriptions to x that are not closed, each once and at its index
ListWellFormed(h, x) ==
    /\ \A i \in 1..Len(h.subs[x]) :
          /\ h.subs[x][i] # Null
          /\ ~h.sub[<<x, h.subs[x][i]>>].closed
          /\ h.sub[<<x, h.subs[x][i]>>].enabled
          /\ h.sub[<<x, h.subs[x][i]>>].sidx = i - 1
    /\ \A o \in Observer :
          (~h.sub[<<x, o>>].closed /\ h.sub[<<x, o>>].enabled)
              => Count(h.subs[x], o) = 1

\* C31: every subscriber list holds exactly the enabled, open subscriptions
\* of its cell, each once and at the index it records, without holes; and
\* unsubscribe() of an open subscription, enabled or disabled, does not
\* throw, takes only that subscription off the list, and does nothing when
\* it is called again.
SubscriberListsWellFormed ==
    /\ \A x \in Cell : ListWellFormed(Heap, x)
    /\ \A x \in Cell, o \in Ext : ~sub[<<x, o>>].closed =>
          LET h == Unsubscribe(Heap, x, o)
          IN /\ ~h.exc
             /\ Range(h.subs[x]) = Range(subs[x]) \ {o}
             /\ ListWellFormed(h, x)
             /\ Unsubscribe(h, x, o) = h

\* C32: a broadcast during which an observer unsubscribes or disables its
\* own subscription does not throw, calls no hook of a subscription twice,
\* and leaves every subscriber list well-formed.
SelfRemovalIsSafe ==
    /\ op[1] \in {"set", "drain"} => ~exc
    /\ \A i, j \in 1..Len(log) : log[i] = log[j] => i = j
    /\ \A x \in Cell : ListWellFormed(Heap, x)

\* C33: when the recipe of a computed ref throws during a validation, from
\* a get() or from its microtask, the ref is left without Queued, with
\* Dirty, and with the value it had cached.
ThrowClearsQueuedOnly ==
    \A n \in (Der \cap NodesOf(prog)) \ disposed :
        LET h == Compute(Heap, n)
        IN (h.exc /\ n \in Ran(h)) =>
              /\ n \notin h.queued
              /\ n \in h.dirty
              /\ h.val[n] = val[n]

\* the heap h as the next call finds it: no exception in flight, no runs
\* recorded
NextCall(h) == [h EXCEPT !.exc = FALSE, !.ran = <<>>, !.ret = NullVal]

\* C34: a get() that follows, with no write in between, a get() that threw
\* because the recipe of the computed ref failed, runs the recipe and
\* throws again.
FailedGetFailsAgain ==
    \A n \in (Der \cap NodesOf(prog)) \ disposed :
        LET h == Get(Heap, n)
        IN (h.exc /\ n \in Ran(h)) =>
              LET h2 == Get(NextCall(h), n)
              IN h2.exc /\ n \in Ran(h2)

\* C35: when a source ref that a live computed ref depends on is disposed,
\* the next get() of the computed ref, at once or after a write to any
\* other source ref, throws nothing, and with no write in between it
\* returns what it would have returned before the disposal.
DisposedUpstreamIsHarmless ==
    \A x \in (Src \cap NodesOf(prog)) \ disposed :
      \A n \in (Der \cap NodesOf(prog)) \ disposed :
        x \in Range(deps[n]) =>
          LET h1 == NextCall(Dispose(Heap, x))
          IN /\ ~Get(h1, n).exc
             /\ Get(h1, n).ret = Get(Heap, n).ret
             /\ \A y \in (Src \cap NodesOf(prog)) \ {x} :
                  \A v \in AVals :
                     ~Get(NextCall(SetRef(h1, y, v)), n).exc

\* C36: a computed ref or an effect has Flags.Queued exactly when one
\* microtask for it is pending, and never more than one is pending.
QueuedIffPending ==
    \A n \in Der \cup Eff :
        /\ Count(queue, n) <= 1
        /\ n \in queued <=> Count(queue, n) = 1

\* C37: while no microtask is pending, a computed ref that has Flags.Queued
\* is Dirty and has at least one subscriber.
QueuedIsDirtyAndObserved ==
    queue = <<>> =>
        \A n \in (Der \cap queued) \ disposed :
            n \in dirty /\ Len(subs[n]) > 0

\* C38: an external observer of a computed ref has received a dirty from
\* it before every next it receives from it, and since the next before
\* that one; and a computed ref that is Dirty already sends no dirty to
\* its subscribers when a dependency turns dirty again.
DirtyPrecedesNext ==
    /\ [][~Warned([edges |-> warned, missed |-> FALSE], log', 1).missed]_vars
    /\ [](\A n \in (Der \cap dirty) \ disposed :
            OnDependencyDirty(Heap, n).log = <<>>)

\* C39: after every top-level call or drain, whether it returned or threw,
\* no scope is the current scope and the dependency cursor is back at 0.
FrameRestored == cur = Null /\ cursor = 0

\* C40: a disposed effect is not enabled, whatever calls of enable() and
\* disable() followed its disposal, and its microtask runs no recipe,
\* changes nothing but Flags.Queued and throws nothing.
DisposedEffectInert ==
    \A n \in Eff \cap made \cap disposed :
        /\ n \notin enabled
        /\ LET h == EffectCompute(Heap, n)
           IN /\ ~h.exc /\ h.ran = <<>>
              /\ h = [Heap EXCEPT !.queued = @ \ {n}]

====
